---- MODULE Spec2Model ----
(***************************************************************************)
(* A model of src/main.py: the per-driver course simulation                *)
(* (DriverSimulation) driven by a simpy environment, and the fleet run     *)
(* over n_drivers of them (Simulate.generate_cost).                        *)
(*                                                                         *)
(* Units.  Time is in hours.  Money is in grosze (1/100 PLN), so that      *)
(* 5.12 PLN per litre is 512 and every amount is an integer.  Weights are  *)
(* in kg, distances in km.  petrol_usage is in litres per 100 km (the      *)
(* source writes 10/100 litres per km).  theft_probability is in percent.  *)
(*                                                                         *)
(* Random draws are nondeterministic choices: normal(loc, scale) offers    *)
(* the values loc + k*scale for the deviates k of Deviates, randint(a, b)  *)
(* offers a..b, and choice offers every value of non-zero probability.     *)
(***************************************************************************)
EXTENDS Integers, Sequences, FiniteSets, TLC

(***************************************************************************)
(* Fixed variables of the program (src/main.py lines 8-20).                *)
(***************************************************************************)
\* The horizon in days.  The program uses 3*365; the model scales it down.
HORIZON == 10
AVERAGE_HOURLY_WAGE == 2000
AVERAGE_HOURLY_WAGE_STD == 500
AVERAGE_LORRY_WEIGHT == 2000
AVERAGE_LOAD_WEIGHT == 2000
AVERAGE_LOAD_WEIGHT_STD == 1500
PRICE_PER_KG == 1000
LORRY_MALFUNCTION_DISTANCE == 100000
LORRY_MALFUNCTION_DISTANCE_STD == 20000
LORRY_REPAIR_COST == 500000
LORRY_REPAIR_COST_STD == 200000
\* petrol_usage is kept in litres per 100 km: the divisor of 10/100, 8/100.
UsageScale == 100
\* theft_probability is kept in percent.
ProbScale == 100

\* env.run(until=24 * HORIZON)
Until == 24 * HORIZON

(***************************************************************************)
(* Python and library primitives.                                          *)
(***************************************************************************)
\* Python's a % b for b # 0: the result has the sign of b.
PyMod(a, b) == IF b > 0 THEN a % b ELSE -((-a) % (-b))

\* Python's a & b on non-negative integers.
RECURSIVE BitAnd(_, _)
BitAnd(a, b) ==
    IF a = 0 \/ b = 0 THEN 0
    ELSE (IF a % 2 = 1 /\ b % 2 = 1 THEN 1 ELSE 0) + 2 * BitAnd(a \div 2, b \div 2)

\* The deviates (in standard deviations) a normal draw is explored at.
Deviates == {0, 1}

\* np.random.normal(loc, scale): with scale = 0 the draw is loc.
normal(loc, scale) == {loc + k * scale : k \in Deviates}

\* random.randint(a, b): both ends included.
randint(a, b) == a..b

\* np.random.choice(values, p): every value of non-zero probability.
choice(values, p) == {values[i] : i \in {j \in DOMAIN values : p[j] > 0}}

(***************************************************************************)
(* Route profiles: the constructor arguments of DriverSimulation.          *)
(***************************************************************************)
Route(dt, std, dist, cost, usage, fine, rf, range, limit, ff, pf, theft) ==
    [driving_time |-> dt, driving_time_std |-> std, distance |-> dist,
     petrol_cost |-> cost, petrol_usage |-> usage, fine |-> fine,
     refueling_frequency |-> rf, refueling_liter_range |-> range,
     weight_limit |-> limit, fine_frequency |-> ff,
     fine_frequency_paid_by_driver |-> pf, theft_probability |-> theft]

\* The slower route of main(), with the drive time and its deviation left open.
SlowWay(dt, std) == Route(dt, std, 620, 512, 10, 0, 6, <<15, 30>>, 4500, 3, 10, 10)

\* The faster route of main(), with the drive time and its deviation left open.
FastWay(dt, std) == Route(dt, std, 450, 543, 8, 40000, 8, <<10, 20>>, 3500, 0, 0, 0)

\* A driver-paid fine on every course after the first, on a run of seven
\* courses: the penalty points pass 20.
FinedWay == [FastWay(38, 0) EXCEPT !.fine_frequency = 1,
                                   !.fine_frequency_paid_by_driver = 1]

\* The profiles explored.  Long drive times give short runs within Until.
Routes ==
    {   \* drive time 10, deviation 0, horizon 240: 24 course slots
        [SlowWay(10, 0) EXCEPT !.theft_probability = 0, !.weight_limit = 3500],
        \* course counts up to 30 and beyond
        [SlowWay(7, 0) EXCEPT !.theft_probability = 0, !.weight_limit = 3500],
        \* the two routes of main() on short runs
        SlowWay(55, 1), FastWay(40, 1),
        \* a driver-paid fine on every course after the first
        [FastWay(55, 0) EXCEPT !.fine_frequency = 1,
                               !.fine_frequency_paid_by_driver = 1],
        \* a fine every second course, driver-paid every fourth
        [FastWay(40, 0) EXCEPT !.fine_frequency = 2,
                               !.fine_frequency_paid_by_driver = 4],
        \* no police checks, with a driver frequency that is never read
        [FastWay(50, 0) EXCEPT !.fine_frequency_paid_by_driver = 10],
        \* long courses: the malfunction distance is reached
        [FastWay(50, 0) EXCEPT !.distance = 30000],
        \* frequencies the source never validates
        [FastWay(50, 0) EXCEPT !.refueling_frequency = 0],
        [FastWay(50, 0) EXCEPT !.refueling_frequency = -2],
        [FastWay(50, 0) EXCEPT !.fine_frequency = 1],
        [FastWay(50, 0) EXCEPT !.fine_frequency = 3],
        \* a short refuel period
        [FastWay(50, 0) EXCEPT !.refueling_frequency = 2],
        \* a weight limit below the weight of the empty lorry
        [FastWay(50, 0) EXCEPT !.weight_limit = 1500],
        \* courses shorter than the spread of the malfunction distance
        [FastWay(33, 0) EXCEPT !.distance = 17000]
    }

(***************************************************************************)
(* State.                                                                  *)
(***************************************************************************)
VARIABLES
    route,                          \* the constructor arguments (self.*, lines 58-69)
    total_cost,                     \* self.total_cost
    total_profit,                   \* self.total_profit
    total_penalty_points,           \* self.total_penalty_points
    number_of_courses,              \* self.number_of_courses
    fine_paid_number_of_courses,    \* self.fine_paid_number_of_courses
    total_distance_after_repair,    \* self.total_distance_after_repair
    now,                            \* env.now
    wake,                           \* the time of the pending Timeout event
    pc,                             \* where run_simulation stands
    course,                         \* the locals of the last evaluated loop body
    charged,                        \* how many times the totals were accumulated
    fined,                          \* how many courses returned a non-zero police fine
    repaired,                       \* the least malfunction distance that led to a repair
    calls,                          \* how many times run_simulation was called
    result,                         \* the tuple run_simulation returned
    fleet                           \* the locals of Simulate.generate_cost

\* The attributes of a DriverSimulation, with what is recorded of its runs.
driver == <<total_cost, total_profit, total_penalty_points, number_of_courses,
            fine_paid_number_of_courses, total_distance_after_repair, now, wake, pc,
            course, charged, fined, repaired, calls, result>>

vars == <<route, driver, fleet>>

NoCourse ==
    [n |-> -1, exc |-> "", raised_in |-> "", route_fine |-> 0, petrol |-> 0,
     avg_drive_time |-> 0, hourly_wage |-> 0, wage |-> 0, refueling |-> 0, police |-> 0,
     points |-> 0, paid |-> 0, malfunction_distance |-> 0, repair |-> 0,
     malfunction |-> 0, distance_before |-> 0, points_before |-> 0,
     profit_weight |-> 0, theft |-> 0, theft_loss |-> 0, profit |-> 0]

\* No repair yet.
NoRepair == -1

\* generate_cost has not been called.
NoFleet ==
    [pc |-> "idle", n_drivers |-> 0, i |-> 0, total_cost |-> 0, total_profit |-> 0,
     number_of_courses |-> 0, results |-> <<>>]

(***************************************************************************)
(* The cost and profit terms of one course.  Each operator gives the set   *)
(* of outcomes of the method over its random draws; n is                   *)
(* self.number_of_courses when the method runs.  An outcome whose exc is   *)
(* not "" is an exception raised by the method.                            *)
(***************************************************************************)
ZeroDivisionError == "ZeroDivisionError"

Return(v) == [exc |-> "", value |-> v]

Raise(e) == [exc |-> e, value |-> 0]

\* _calculate_profit_weight with the clamp to weight_limit left out.
_calculate_profit_weight_unclamped ==
    {lorry_weight - AVERAGE_LORRY_WEIGHT :
     lorry_weight \in normal(AVERAGE_LORRY_WEIGHT + AVERAGE_LOAD_WEIGHT,
                             AVERAGE_LOAD_WEIGHT_STD)}

\* _calculate_profit_weight: the drawn gross weight, clamped, minus the lorry.
_calculate_profit_weight ==
    {(IF lorry_weight > route.weight_limit THEN route.weight_limit ELSE lorry_weight)
        - AVERAGE_LORRY_WEIGHT :
     lorry_weight \in normal(AVERAGE_LORRY_WEIGHT + AVERAGE_LOAD_WEIGHT,
                             AVERAGE_LOAD_WEIGHT_STD)}

\* _cost_load_theft: on a theft the loss is a new call of _calculate_profit_weight.
_cost_load_theft ==
    UNION {IF theft = 1
           THEN {[theft |-> 1, cost |-> w * PRICE_PER_KG] : w \in _calculate_profit_weight}
           ELSE {[theft |-> 0, cost |-> 0]} :
           theft \in choice(<<0, 1>>, <<ProbScale - route.theft_probability,
                                        route.theft_probability>>)}

\* _calculate_profits
_calculate_profits ==
    {[profit_weight |-> profit_weight, theft |-> t.theft, theft_loss |-> t.cost,
      profit |-> profit_weight * PRICE_PER_KG - t.cost] :
     profit_weight \in _calculate_profit_weight, t \in _cost_load_theft}

\* _cost_route_fine
_cost_route_fine == route.fine

\* _cost_petrol
_cost_petrol == (route.distance * route.petrol_usage * route.petrol_cost) \div UsageScale

\* _cost_wage
_cost_wage ==
    {[avg_drive_time |-> avg_drive_time, hourly_wage |-> hourly_wage,
      total |-> avg_drive_time * hourly_wage] :
     avg_drive_time \in normal(route.driving_time, route.driving_time_std),
     hourly_wage \in normal(AVERAGE_HOURLY_WAGE, AVERAGE_HOURLY_WAGE_STD)}

\* _cost_refueling.  The source's condition is
\*     n % refueling_frequency == 0 & n != 0
\* which Python reads as the chain  (n % f) == (0 & n)  and  (0 & n) != 0.
_cost_refueling(n) ==
    IF route.refueling_frequency = 0 THEN {Raise(ZeroDivisionError)}
    ELSE IF /\ PyMod(n, route.refueling_frequency) = BitAnd(0, n)
            /\ BitAnd(0, n) # 0
         THEN {Return(refueled_petrol * route.petrol_cost) :
               refueled_petrol \in randint(route.refueling_liter_range[1],
                                           route.refueling_liter_range[2])}
         ELSE {Return(0)}

\* _add_penalty_points with 0 among the points drawn.
_add_penalty_points_from_zero == randint(0, 5)

\* _add_penalty_points
_add_penalty_points == randint(1, 5)

FineValues == <<10000, 20000, 50000>>

\* The outcomes of _cost_caught_by_police: no fine, a driver-paid fine with
\* its penalty points, and the division by a zero frequency.
NoFine == {[exc |-> "", value |-> 0, points |-> 0, paid |-> 0]}

PaidFine ==
    {[exc |-> "", value |-> fine_value, points |-> points, paid |-> 1] :
     fine_value \in choice(FineValues, <<25, 40, 35>>),
     points \in _add_penalty_points}

PoliceRaises == {[exc |-> ZeroDivisionError, value |-> 0, points |-> 0, paid |-> 0]}

\* _cost_caught_by_police with the outer periodic check left out: every
\* multiple of the paid frequency is fined.
_cost_caught_by_police_paid_only(n) ==
    IF route.fine_frequency # 0
    THEN IF route.fine_frequency_paid_by_driver = 0 THEN PoliceRaises
         ELSE IF PyMod(n, route.fine_frequency_paid_by_driver) = 0 /\ n # 0
              THEN PaidFine
              ELSE NoFine
    ELSE NoFine

\* _cost_caught_by_police with the tests n != 0 left out.
_cost_caught_by_police_first_course(n) ==
    IF route.fine_frequency # 0
    THEN IF PyMod(n, route.fine_frequency) = 0
         THEN IF route.fine_frequency_paid_by_driver = 0 THEN PoliceRaises
              ELSE IF PyMod(n, route.fine_frequency_paid_by_driver) = 0
                   THEN PaidFine
                   ELSE NoFine
         ELSE NoFine
    ELSE NoFine

\* _cost_caught_by_police with the test fine_frequency != 0 left out: the
\* modulo by a zero frequency raises.
_cost_caught_by_police_unguarded(n) ==
    IF route.fine_frequency = 0 THEN PoliceRaises
    ELSE IF PyMod(n, route.fine_frequency) = 0 /\ n # 0
         THEN IF route.fine_frequency_paid_by_driver = 0 THEN PoliceRaises
              ELSE IF PyMod(n, route.fine_frequency_paid_by_driver) = 0 /\ n # 0
                   THEN PaidFine
                   ELSE NoFine
         ELSE NoFine

\* _cost_caught_by_police: the fine, the penalty points added to
\* total_penalty_points (points) and whether fine_paid_number_of_courses is
\* incremented (paid).  n % fine_frequency_paid_by_driver divides by zero
\* when that frequency is 0.
_cost_caught_by_police(n) ==
    IF route.fine_frequency # 0
    THEN IF PyMod(n, route.fine_frequency) = 0 /\ n # 0
         THEN IF route.fine_frequency_paid_by_driver = 0 THEN PoliceRaises
              ELSE IF PyMod(n, route.fine_frequency_paid_by_driver) = 0 /\ n # 0
                   THEN PaidFine
                   ELSE NoFine
         ELSE NoFine
    ELSE NoFine

\* _cost_vehicle_malfunction with the distance of the current course counted
\* in before the comparison.
_cost_vehicle_malfunction_after_course ==
    UNION {IF total_distance_after_repair + route.distance > malfunction_distance
           THEN {[malfunction_distance |-> malfunction_distance, repair |-> 1,
                  cost |-> repair_cost] :
                 repair_cost \in normal(LORRY_REPAIR_COST, LORRY_REPAIR_COST_STD)}
           ELSE {[malfunction_distance |-> malfunction_distance, repair |-> 0,
                  cost |-> 0]} :
           malfunction_distance \in normal(LORRY_MALFUNCTION_DISTANCE,
                                           LORRY_MALFUNCTION_DISTANCE_STD)}

\* _cost_vehicle_malfunction: a new malfunction distance is drawn on every
\* call; the repair cost is drawn only when the distance driven is past it.
_cost_vehicle_malfunction ==
    UNION {IF total_distance_after_repair > malfunction_distance
           THEN {[malfunction_distance |-> malfunction_distance, repair |-> 1,
                  cost |-> repair_cost] :
                 repair_cost \in normal(LORRY_REPAIR_COST, LORRY_REPAIR_COST_STD)}
           ELSE {[malfunction_distance |-> malfunction_distance, repair |-> 0,
                  cost |-> 0]} :
           malfunction_distance \in normal(LORRY_MALFUNCTION_DISTANCE,
                                           LORRY_MALFUNCTION_DISTANCE_STD)}

\* _calculate_costs: the six terms in the source's order; an exception of a
\* term ends the call before the later terms run.
_calculate_costs(n) ==
    LET refuels == _cost_refueling(n)
        polices == _cost_caught_by_police(n)
        failed(e, f) == [NoCourse EXCEPT !.n = n, !.exc = e, !.raised_in = f]
    IN  {failed(r.exc, "_cost_refueling") : r \in {x \in refuels : x.exc # ""}}
        \cup {failed(p.exc, "_cost_caught_by_police") :
              p \in {x \in polices : x.exc # "" /\ \E r \in refuels : r.exc = ""}}
        \cup {[NoCourse EXCEPT !.n = n,
                               !.route_fine = _cost_route_fine,
                               !.petrol = _cost_petrol,
                               !.avg_drive_time = w.avg_drive_time,
                               !.hourly_wage = w.hourly_wage,
                               !.wage = w.total,
                               !.refueling = r.value,
                               !.police = p.value,
                               !.points = p.points,
                               !.paid = p.paid,
                               !.malfunction_distance = m.malfunction_distance,
                               !.repair = m.repair,
                               !.malfunction = m.cost] :
              w \in _cost_wage,
              r \in {x \in refuels : x.exc = ""},
              p \in {x \in polices : x.exc = ""},
              m \in _cost_vehicle_malfunction}

\* The sum of the terms with the flat fine of the route left out.
Cost_without_route_fine(c) == c.petrol + c.wage + c.refueling + c.police + c.malfunction

\* The sum _calculate_costs returns.
Cost(c) == c.route_fine + c.petrol + c.wage + c.refueling + c.police + c.malfunction

(***************************************************************************)
(* The simulation process and the environment that runs it.                *)
(***************************************************************************)
\* The attributes __init__ sets, with what is recorded of the runs; at is the
\* position of the instance.
Attributes(at) ==
    /\ total_cost = 0
    /\ total_profit = 0
    /\ total_penalty_points = 0
    /\ number_of_courses = 0
    /\ fine_paid_number_of_courses = 0
    /\ total_distance_after_repair = 0
    /\ now = 0
    /\ wake = 0
    /\ pc = at
    /\ course = NoCourse
    /\ charged = 0
    /\ fined = 0
    /\ repaired = NoRepair
    /\ calls = 0
    /\ result = <<>>

\* DriverSimulation(...) for the route r.
Constructed(r) ==
    /\ route = r
    /\ Attributes("constructed")

\* A DriverSimulation of one of the routes, constructed on its own.
Init ==
    /\ \E r \in Routes : Constructed(r)
    /\ fleet = NoFleet

\* The distance after the course c, were it to start again from 0 on a repair.
AddDistance_reset(c) ==
    IF c.repair = 1 THEN 0 ELSE total_distance_after_repair + route.distance

\* self.total_distance_after_repair += self.distance, after the costs of the
\* course c.
AddDistance(c) == total_distance_after_repair + route.distance

\* The wake-up time, were the timeout the drive time drawn for the wage.
TimeoutAt_sampled(c, t) == t + c.avg_drive_time

\* yield env.timeout(self.driving_time), at time t after the course c.
TimeoutAt(c, t) == t + route.driving_time

\* One pass of the loop body of _simulation, up to its yield, at time t with
\* self.number_of_courses = n.  An exception leaves the totals as they were
\* and ends run_simulation.
Body(n, t) ==
    \E c \in _calculate_costs(n) :
        IF c.exc # ""
        THEN /\ pc' = "raised"
             /\ course' = [c EXCEPT !.distance_before = total_distance_after_repair,
                                    !.points_before = total_penalty_points]
             /\ UNCHANGED <<total_cost, total_profit, total_penalty_points,
                            fine_paid_number_of_courses, total_distance_after_repair,
                            wake, charged, fined, repaired>>
        ELSE \E p \in _calculate_profits :
             /\ total_cost' = total_cost + Cost(c)
             /\ total_penalty_points' = total_penalty_points + c.points
             /\ fine_paid_number_of_courses' = fine_paid_number_of_courses + c.paid
             /\ total_profit' = total_profit + p.profit
             /\ total_distance_after_repair' = AddDistance(c)
             /\ course' = [c EXCEPT !.distance_before = total_distance_after_repair,
                                    !.points_before = total_penalty_points,
                                    !.profit_weight = p.profit_weight,
                                    !.theft = p.theft,
                                    !.theft_loss = p.theft_loss,
                                    !.profit = p.profit]
             /\ charged' = charged + 1
             /\ fined' = fined + (IF c.police # 0 THEN 1 ELSE 0)
             /\ repaired' = IF c.repair = 1 /\ (repaired = NoRepair
                                                \/ c.malfunction_distance < repaired)
                             THEN c.malfunction_distance
                             ELSE repaired
             /\ wake' = TimeoutAt(c, t)
             /\ pc' = "waiting"

\* run_simulation is called: a new environment at time 0, the process and the
\* until event scheduled.
run_simulation ==
    /\ pc = "constructed"
    /\ pc' = "scheduled"
    /\ now' = 0
    /\ calls' = calls + 1
    /\ UNCHANGED <<route, total_cost, total_profit, total_penalty_points,
                   number_of_courses, fine_paid_number_of_courses,
                   total_distance_after_repair, wake, course, charged, fined,
                   repaired, result, fleet>>

\* The process starts: the first pass of the loop body, at time 0.
Initialize ==
    /\ pc = "scheduled"
    /\ Body(number_of_courses, now)
    /\ UNCHANGED <<route, number_of_courses, now, calls, result, fleet>>

\* The Timeout fires before the horizon: the course is counted and the next
\* pass of the loop body runs.
Timeout ==
    /\ pc = "waiting"
    /\ wake < Until
    /\ now' = wake
    /\ number_of_courses' = number_of_courses + 1
    /\ Body(number_of_courses + 1, wake)
    /\ UNCHANGED <<route, calls, result, fleet>>

\* The until event: it is scheduled with the urgent priority, so it is
\* processed before a Timeout due at the same time.  run_simulation returns.
StopSimulation ==
    /\ pc = "waiting"
    /\ wake >= Until
    /\ now' = Until
    /\ pc' = "returned"
    /\ result' = <<total_cost, total_profit, number_of_courses>>
    /\ UNCHANGED <<route, total_cost, total_profit, total_penalty_points,
                   number_of_courses, fine_paid_number_of_courses,
                   total_distance_after_repair, wake, course, charged, fined,
                   repaired, calls, fleet>>

Next == run_simulation \/ Initialize \/ Timeout \/ StopSimulation

Spec == Init /\ [][Next]_vars

\* One DriverSimulation of FinedWay.
InitFined ==
    /\ Constructed(FinedWay)
    /\ fleet = NoFleet

SpecFined == InitFined /\ [][Next]_vars

(***************************************************************************)
(* A second call of run_simulation on the same instance.                   *)
(***************************************************************************)
MaxCalls == 2

\* Short runs: three courses are charged within Until.
ShortWay == FastWay(100, 0)

\* run_simulation called on an instance whose run has returned: a new
\* environment (the clock is 0 again) and a new _simulation process over
\* the attributes as the earlier run left them.
run_simulation_again ==
    /\ pc = "returned"
    /\ calls < MaxCalls
    /\ pc' = "scheduled"
    /\ now' = 0
    /\ calls' = calls + 1
    /\ UNCHANGED <<route, total_cost, total_profit, total_penalty_points,
                   number_of_courses, fine_paid_number_of_courses,
                   total_distance_after_repair, wake, course, charged, fined,
                   repaired, result, fleet>>

InitRerun ==
    /\ Constructed(ShortWay)
    /\ fleet = NoFleet

NextRerun == Next \/ run_simulation_again

SpecRerun == InitRerun /\ [][NextRerun]_vars

(***************************************************************************)
(* Simulate.generate_cost: n_drivers runs, one after the other.            *)
(***************************************************************************)
MaxDrivers == 2

\* The route profiles of the fleets explored; the second one raises.
FleetRoutes == {ShortWay, [ShortWay EXCEPT !.refueling_frequency = 0]}

\* The locals after the statements of the loop body that follow
\* run_simulation, with res the tuple it returned; the sum keeps the first
\* result only.
Collect_first_only(f, res) ==
    [f EXCEPT !.total_cost = IF f.i = 1 THEN res[1] ELSE @,
              !.total_profit = IF f.i = 1 THEN res[2] ELSE @,
              !.number_of_courses = IF f.i = 1 THEN res[3] ELSE @,
              !.i = @ + 1,
              !.results = Append(@, res),
              !.pc = "loop"]

\* The locals after the statements of the loop body that follow
\* run_simulation, with res the tuple it returned.
Collect(f, res) ==
    [f EXCEPT !.total_cost = @ + res[1],
              !.total_profit = @ + res[2],
              !.number_of_courses = @ + res[3],
              !.i = @ + 1,
              !.results = Append(@, res),
              !.pc = "loop"]

\* generate_cost is called: the locals before the loop.
generate_cost ==
    /\ fleet.pc = "constructed"
    /\ fleet' = [fleet EXCEPT !.pc = "loop", !.i = 1, !.total_cost = 0,
                              !.total_profit = 0, !.number_of_courses = 0]
    /\ UNCHANGED <<route, driver>>

\* while i <= self.n_drivers: inst = DriverSimulation(...)
NewDriver ==
    /\ fleet.pc = "loop"
    /\ fleet.i <= fleet.n_drivers
    /\ total_cost' = 0
    /\ total_profit' = 0
    /\ total_penalty_points' = 0
    /\ number_of_courses' = 0
    /\ fine_paid_number_of_courses' = 0
    /\ total_distance_after_repair' = 0
    /\ now' = 0
    /\ wake' = 0
    /\ pc' = "constructed"
    /\ course' = NoCourse
    /\ charged' = 0
    /\ fined' = 0
    /\ repaired' = NoRepair
    /\ calls' = 0
    /\ result' = <<>>
    /\ fleet' = [fleet EXCEPT !.pc = "running"]
    /\ UNCHANGED route

\* inst.run_simulation() has returned: the sums and i += 1.
DriverReturned ==
    /\ fleet.pc = "running"
    /\ pc = "returned"
    /\ fleet' = Collect(fleet, result)
    /\ UNCHANGED <<route, driver>>

\* inst.run_simulation() has raised: nothing in generate_cost catches it.
DriverRaised ==
    /\ fleet.pc = "running"
    /\ pc = "raised"
    /\ fleet' = [fleet EXCEPT !.pc = "raised"]
    /\ UNCHANGED <<route, driver>>

\* The loop condition fails: return total_cost, total_profit, number_of_courses.
FleetReturn ==
    /\ fleet.pc = "loop"
    /\ fleet.i > fleet.n_drivers
    /\ fleet' = [fleet EXCEPT !.pc = "returned"]
    /\ UNCHANGED <<route, driver>>

\* A Simulate of one of the fleet routes; no DriverSimulation exists yet.
InitFleet ==
    /\ route \in FleetRoutes
    /\ Attributes("absent")
    /\ \E n \in -1..MaxDrivers : fleet = [NoFleet EXCEPT !.pc = "constructed",
                                                        !.n_drivers = n]

NextFleet ==
    \/ generate_cost \/ NewDriver \/ DriverReturned \/ DriverRaised \/ FleetReturn
    \/ Next

SpecFleet == InitFleet /\ [][NextFleet]_vars

(***************************************************************************)
(* Properties.  course holds the locals of the last pass of the loop body: *)
(* course.n is the course count it ran with (-1 before the first pass),    *)
(* course.exc is "" when the pass completed.                               *)
(***************************************************************************)
Evaluated == course.n >= 0 /\ course.exc = ""

FineSet == {FineValues[i] : i \in DOMAIN FineValues}

\* C1: for a driver run (the source has neither suspension nor rest
\* interval), the returned course count is floor(horizon / drive_time),
\* exact multiples of the drive time included.
CourseCountLaw ==
    pc = "returned" => result[3] = Until \div route.driving_time

\* C2: at the return, the totals hold the contributions of exactly the
\* returned number of courses: the totals were accumulated as many times as
\* number_of_courses says.
ChargedOnlyCompletedCourses ==
    pc = "returned" => charged = result[3]

\* C3: the refuel cost of a course is 0 when the course count is 0 or no
\* multiple of refueling_frequency, and within
\* [min_liters * petrol_cost, max_liters * petrol_cost] on every non-zero
\* multiple of it.
RefuelPeriodicity ==
    (Evaluated /\ route.refueling_frequency > 0) =>
        IF course.n = 0 \/ course.n % route.refueling_frequency # 0
        THEN course.refueling = 0
        ELSE /\ course.refueling >= route.refueling_liter_range[1] * route.petrol_cost
             /\ course.refueling <= route.refueling_liter_range[2] * route.petrol_cost

\* The length of the suspension the specification describes.
SentenceHours == 365 * 24

\* C4: once total_penalty_points >= 24 holds after a course, the next
\* transition before the horizon is the suspension: the points are reset to
\* 0, the clock advances by 365*24 hours, nothing is accrued and no course
\* is counted.
SuspensionReset ==
    [][(pc = "waiting" /\ wake < Until /\ total_penalty_points >= 24) =>
            /\ total_penalty_points' = 0
            /\ now' = now + SentenceHours
            /\ total_cost' = total_cost
            /\ total_profit' = total_profit
            /\ number_of_courses' = number_of_courses]_vars

\* C5 as stated: with fine_frequency 3 and fine_frequency_paid_by_driver 10,
\* over course counts 1..30 exactly the counts divisible by 10 give a
\* non-zero fine and penalty points.
ScenarioC_EveryTenth ==
    (Evaluated /\ route.fine_frequency = 3 /\ route.fine_frequency_paid_by_driver = 10
        /\ course.n \in 1..30) =>
        IF course.n % 10 = 0
        THEN course.police # 0 /\ course.points \in 1..5
        ELSE course.police = 0 /\ course.points = 0

\* C5 as amended: with fine_frequency 3 and fine_frequency_paid_by_driver 10,
\* over course counts 1..30 exactly the counts divisible by both 3 and 10
\* (only 30) give a fine in {100, 200, 500} PLN and add 1..5 penalty points;
\* every other count, 10 and 20 included, gives fine 0 and adds no points.
ScenarioC_EveryThirtieth ==
    (Evaluated /\ route.fine_frequency = 3 /\ route.fine_frequency_paid_by_driver = 10
        /\ course.n \in 1..30) =>
        IF course.n % 3 = 0 /\ course.n % 10 = 0
        THEN /\ course.n = 30
             /\ course.police \in FineSet
             /\ course.points \in 1..5
             /\ total_penalty_points = course.points_before + course.points
        ELSE /\ course.police = 0
             /\ course.points = 0
             /\ total_penalty_points = course.points_before

ScenarioC_Reached ==
    /\ Evaluated
    /\ route.fine_frequency = 3
    /\ route.fine_frequency_paid_by_driver = 10
    /\ course.n = 30
    /\ course.police # 0
    /\ total_penalty_points > 0

\* The condition under which a course is fined (C6).
FineDue(n) ==
    /\ route.fine_frequency # 0
    /\ n # 0
    /\ PyMod(n, route.fine_frequency) = 0
    /\ route.fine_frequency_paid_by_driver # 0
    /\ PyMod(n, route.fine_frequency_paid_by_driver) = 0

\* C6: a completed course has a non-zero fine (in {100, 200, 500} PLN) and
\* adds 1..5 penalty points exactly when fine_frequency # 0, the course count
\* is not 0 and is a multiple of both frequencies; otherwise the fine is 0
\* and the penalty points are unchanged.  The first course is never fined.
PoliceFineIff ==
    Evaluated =>
        IF FineDue(course.n)
        THEN /\ course.police \in FineSet
             /\ course.points \in 1..5
             /\ total_penalty_points = course.points_before + course.points
        ELSE /\ course.police = 0
             /\ total_penalty_points = course.points_before

\* A fined course, and before it a course the periodic check hit without a
\* driver-paid fine (fine_frequency 2, paid frequency 4: count 4 after 2).
PoliceFineReached ==
    /\ Evaluated
    /\ route.fine_frequency = 2
    /\ route.fine_frequency_paid_by_driver = 4
    /\ course.n = 4
    /\ course.police # 0
    /\ total_penalty_points = course.points

\* C7: with fine_frequency = 0, whatever the paid frequency, no course is
\* fined, _cost_caught_by_police raises nothing and the penalty points stay 0.
FineFrequencyZero ==
    route.fine_frequency = 0 =>
        /\ course.police = 0
        /\ course.points = 0
        /\ course.raised_in # "_cost_caught_by_police"
        /\ total_penalty_points = 0
        /\ fine_paid_number_of_courses = 0

FineFrequencyZeroReached ==
    /\ route.fine_frequency = 0
    /\ route.fine_frequency_paid_by_driver = 0
    /\ pc = "returned"
    /\ result[3] >= 4

\* C8: on a course with a theft the loss is that course's
\* profit_weight * PRICE_PER_KG, so its net profit is 0; without a theft the
\* loss is 0 and the profit is profit_weight * PRICE_PER_KG.
TheftLosesTheLoad ==
    Evaluated =>
        IF course.theft = 1
        THEN /\ course.theft_loss = course.profit_weight * PRICE_PER_KG
             /\ course.profit = 0
        ELSE /\ course.theft_loss = 0
             /\ course.profit = course.profit_weight * PRICE_PER_KG

\* C9: the profit weight of a course plus the weight of the empty lorry never
\* exceeds weight_limit; the same holds of the weight a theft loss is priced
\* at, which is a second call of _calculate_profit_weight.
WeightClamp ==
    Evaluated =>
        /\ course.profit_weight + AVERAGE_LORRY_WEIGHT <= route.weight_limit
        /\ course.theft = 1 =>
               course.theft_loss <= (route.weight_limit - AVERAGE_LORRY_WEIGHT) * PRICE_PER_KG

\* The clamp acted: a draw above the limit of 4500 kg, and a limit below the
\* weight of the empty lorry is reached by another run.
WeightClampReached ==
    /\ Evaluated
    /\ route.weight_limit = 4500
    /\ course.profit_weight + AVERAGE_LORRY_WEIGHT = route.weight_limit
    /\ course.theft = 1

\* The configurations the specification rejects (C10).
Invalid(r) ==
    \/ r.refueling_frequency <= 0
    \/ r.fine_frequency > 0 /\ r.fine_frequency_paid_by_driver <= 0

\* C10: an invalid route is rejected at construction: no course of it is
\* simulated, nothing is accumulated, and no run of it fails part-way.
EagerRejection ==
    Invalid(route) =>
        /\ charged = 0
        /\ number_of_courses = 0
        /\ total_cost = 0
        /\ total_profit = 0
        /\ pc # "raised"

\* C11: a fleet run with n_drivers < 1 fails (it returns no totals), and a
\* fleet run with n_drivers >= 1 does not fail.
EmptyFleetRejected ==
    /\ fleet.pc = "returned" => fleet.n_drivers >= 1
    /\ fleet.pc = "raised" => fleet.n_drivers < 1

\* The orders in which n results can be summed.
Orders(n) == {o \in [1..n -> 1..n] : \A a, b \in 1..n : a # b => o[a] # o[b]}

\* The component-wise sum of the first k results taken in the order o.
RECURSIVE Summed(_, _, _)
Summed(results, o, k) ==
    IF k = 0 THEN <<0, 0, 0>>
    ELSE LET s == Summed(results, o, k - 1)
             r == results[o[k]]
         IN  <<s[1] + r[1], s[2] + r[2], s[3] + r[3]>>

RepairOnEveryLaterCourse ==
    (Evaluated /\ repaired # NoRepair) => course.repair = 1

\* C14, amended: once a repair has been triggered on some course of a run,
\* every later course whose own drawn threshold is not above a threshold that
\* has triggered a repair incurs a repair cost.
RepairOnLaterCourseWithinThreshold ==
    (Evaluated /\ repaired # NoRepair /\ course.malfunction_distance <= repaired) =>
        /\ course.repair = 1
        /\ course.malfunction > 0

\* A repair on the course counted 6 and another on the course counted 7.
RepairRepeated ==
    /\ Evaluated
    /\ course.n = 7
    /\ course.repair = 1
    /\ repaired # NoRepair
    /\ course.distance_before - route.distance > repaired
    /\ course.malfunction_distance <= repaired

\* C15: total_distance_after_repair is distance times the number of courses
\* started, repairs or not, and the malfunction check of the course counted
\* k compares k * distance with the threshold drawn for that course.
DistanceNeverReset ==
    /\ total_distance_after_repair = charged * route.distance
    /\ pc = "waiting" => charged = number_of_courses + 1
    /\ Evaluated =>
           /\ course.distance_before = course.n * route.distance
           /\ course.repair = 1 <=> course.distance_before > course.malfunction_distance
           /\ course.repair = 1 <=> course.malfunction > 0

\* After a repair on the course counted 6, the course counted 7 is below its
\* own threshold, and the distance is that of 8 courses.
DistanceKeptAfterRepair ==
    /\ Evaluated
    /\ course.n = 7
    /\ repaired # NoRepair
    /\ course.repair = 0
    /\ total_distance_after_repair = 8 * route.distance
    /\ total_distance_after_repair > course.malfunction_distance

\* C16: whenever a course completes, number_of_courses grows by exactly 1,
\* the clock advances by the nominal driving_time, whatever drive time was
\* drawn for the wage, and the clock is number_of_courses * driving_time.
ClockFollowsNominalTime ==
    [][number_of_courses' # number_of_courses =>
            /\ number_of_courses' = number_of_courses + 1
            /\ now' = now + route.driving_time
            /\ now' = number_of_courses' * route.driving_time]_vars

\* Two courses completed, the second one with a drawn drive time that is not
\* the nominal one.
ClockAfterSampledTime ==
    /\ pc = "waiting"
    /\ number_of_courses = 2
    /\ course.n = 2
    /\ course.avg_drive_time # route.driving_time
    /\ now = 2 * route.driving_time
    /\ wake = 3 * route.driving_time

\* C17: every call of run_simulation, a second call on the same instance
\* included, starts its first course from zeroed attributes.
RunStartsZeroed ==
    pc = "scheduled" =>
        /\ total_cost = 0
        /\ total_profit = 0
        /\ total_penalty_points = 0
        /\ number_of_courses = 0
        /\ total_distance_after_repair = 0
        /\ fine_paid_number_of_courses = 0

\* C18: the cost added for a course is the sum of its six terms, computed
\* with the course count and the distance held before the course is counted
\* in; the flat fine of the route is a term of every course and the petrol
\* term is the constant distance * petrol_usage * petrol_cost.
CourseCostIsSumOfTerms ==
    [][charged' = charged + 1 =>
            /\ total_cost' - total_cost =
                   course'.route_fine + course'.petrol + course'.wage
                   + course'.refueling + course'.police + course'.malfunction
            /\ course'.route_fine = route.fine
            /\ course'.petrol =
                   (route.distance * route.petrol_usage * route.petrol_cost) \div UsageScale
            /\ course'.wage = course'.avg_drive_time * course'.hourly_wage
            /\ course'.n = charged
            /\ course'.n = number_of_courses'
            /\ course'.distance_before = total_distance_after_repair
            /\ course'.police # 0 => FineDue(course'.n)
            /\ course'.repair = 1 <=>
                   total_distance_after_repair > course'.malfunction_distance]_vars

\* A course with a flat fine and a repair cost among its terms.
CourseCostReached ==
    /\ Evaluated
    /\ course.n = 4
    /\ course.route_fine = 40000
    /\ course.malfunction = 700000
    /\ total_cost >= 5 * (course.route_fine + course.petrol) + course.malfunction

\* C19: a driver run on a route with driving_time > 0 goes on until
\* run_simulation returns: it stops in no other state.
RunReturns ==
    route.driving_time > 0 => (pc = "returned" \/ ENABLED Next)

\* C20: a course either increments fine_paid_number_of_courses and adds 1..5
\* penalty points, with a non-zero fine, or does none of the three; so
\* fine_paid_number_of_courses <= total_penalty_points
\* <= 5 * fine_paid_number_of_courses, and the counter is the number of
\* courses with a non-zero police fine.
FinesAndPointsTogether ==
    /\ fine_paid_number_of_courses <= total_penalty_points
    /\ total_penalty_points <= 5 * fine_paid_number_of_courses
    /\ fine_paid_number_of_courses = fined
    /\ Evaluated =>
           \/ course.paid = 1 /\ course.points \in 1..5 /\ course.police # 0
           \/ course.paid = 0 /\ course.points = 0 /\ course.police = 0
    /\ Evaluated => total_penalty_points = course.points_before + course.points

\* Four fined courses with the least points each.
FinesAndPointsReached ==
    /\ Evaluated
    /\ fine_paid_number_of_courses = 4
    /\ total_penalty_points = 4
    /\ course.paid = 1

====
